---- MODULE Spec2Model ----
(***************************************************************************)
(* A model of scripts/update-flows.ts: the aggregation of MON Transfer     *)
(* logs into per-period flow files.                                        *)
(*                                                                         *)
(* Strings are sequences of one-character strings, so that toLowerCase,    *)
(* slice, template concatenation and split act on characters as they do    *)
(* in the script.  A bigint is a little-endian sequence of bits without    *)
(* high zero bits.  A JavaScript number (only non-negative finite values   *)
(* arise) is a record [m, e] standing for m * 2^e with m an odd bigint of  *)
(* at most 53 bits, every operation rounding to nearest, ties to even.     *)
(***************************************************************************)
EXTENDS Integers, Sequences, FiniteSets, TLC

\* ------------------------------------------------------------------ bigint

Min2(a, b) == IF a < b THEN a ELSE b

Max2(a, b) == IF a > b THEN a ELSE b

Zeros(k) == [i \in 1..k |-> 0]

\* The bits of a without its high zero bits.
BigNorm(a) ==
    LET hi == {i \in 1..Len(a) : a[i] = 1}
    IN  IF hi = {} THEN <<>>
        ELSE SubSeq(a, 1, CHOOSE i \in hi : \A j \in hi : j <= i)

BigBit(a, i) == IF i >= 1 /\ i <= Len(a) THEN a[i] ELSE 0

\* The ripple of a carry (a borrow) through bits lo..hi, split in halves so
\* that the evaluation stays shallow: <<the result's bits lo..hi, carry out>>.
RECURSIVE AddRange(_, _, _, _, _)
AddRange(a, b, lo, hi, cin) ==
    IF lo = hi
    THEN LET t == BigBit(a, lo) + BigBit(b, lo) + cin
         IN  <<<<t % 2>>, t \div 2>>
    ELSE LET mid  == (lo + hi) \div 2
             low  == AddRange(a, b, lo, mid, cin)
             high == AddRange(a, b, mid + 1, hi, low[2])
         IN  <<low[1] \o high[1], high[2]>>

BigAdd(a, b) ==
    LET n == Max2(Len(a), Len(b)) + 1
    IN  BigNorm(AddRange(a, b, 1, n, 0)[1])

\* a < b, on normalised bigints.
BigLess(a, b) ==
    IF Len(a) # Len(b) THEN Len(a) < Len(b)
    ELSE LET d == {i \in 1..Len(a) : a[i] # b[i]}
         IN  IF d = {} THEN FALSE
             ELSE a[CHOOSE i \in d : \A j \in d : j <= i] = 0

RECURSIVE SubRange(_, _, _, _, _)
SubRange(a, b, lo, hi, bin) ==
    IF lo = hi
    THEN LET t == BigBit(a, lo) - BigBit(b, lo) - bin
         IN  <<<<(t + 2) % 2>>, IF t < 0 THEN 1 ELSE 0>>
    ELSE LET mid  == (lo + hi) \div 2
             low  == SubRange(a, b, lo, mid, bin)
             high == SubRange(a, b, mid + 1, hi, low[2])
         IN  <<low[1] \o high[1], high[2]>>

\* a - b, for a >= b.
BigSub(a, b) ==
    IF a = <<>> THEN <<>> ELSE BigNorm(SubRange(a, b, 1, Len(a), 0)[1])

BigShl(a, k) == IF a = <<>> THEN <<>> ELSE Zeros(k) \o a

BigShr(a, k) == IF k >= Len(a) THEN <<>> ELSE SubSeq(a, k + 1, Len(a))

\* The bigint of a natural number of the model.
RECURSIVE BigOfNat(_)
BigOfNat(n) == IF n = 0 THEN <<>> ELSE <<n % 2>> \o BigOfNat(n \div 2)

\* The natural number of a bigint small enough to be one.
RECURSIVE NatOfBig(_)
NatOfBig(a) == IF a = <<>> THEN 0 ELSE a[1] + 2 * NatOfBig(Tail(a))

Reverse(s) == [i \in 1..Len(s) |-> s[Len(s) + 1 - i]]

\* Long division of a by b # 0 over the bits hi down to lo of a, r the
\* remainder so far: <<the quotient's bits hi..lo, the highest first,
\* remainder>>.
RECURSIVE DivRange(_, _, _, _, _)
DivRange(a, b, hi, lo, r) ==
    IF lo = hi
    THEN LET r2 == BigNorm(<<a[lo]>> \o r)
         IN  IF BigLess(r2, b) THEN <<<<0>>, r2>>
             ELSE <<<<1>>, BigSub(r2, b)>>
    ELSE LET mid  == (lo + hi) \div 2
             high == DivRange(a, b, hi, mid + 1, r)
             low  == DivRange(a, b, mid, lo, high[2])
         IN  <<high[1] \o low[1], low[2]>>

\* <<a / b, a % b>> for bigints, b # 0n.
QuotientLowFirst(qr) == <<BigNorm(Reverse(qr[1])), qr[2]>>

BigDivMod(a, b) ==
    IF a = <<>> \/ b = <<>> THEN <<<<>>, <<>>>>
    ELSE QuotientLowFirst(DivRange(a, b, Len(a), 1, <<>>))

BigMul10(a) == IF a = <<>> THEN <<>> ELSE BigAdd(BigShl(a, 3), BigShl(a, 1))

\* 10n ** BigInt(d)
RECURSIVE BigPow10(_)
BigPow10(d) ==
    IF d = 0 THEN <<1>>
    ELSE LET p == BigPow10(d - 1) IN IF p = <<>> THEN <<>> ELSE BigMul10(p)

\* ------------------------------------------------------------------ number

\* A JavaScript number has 53 bits of significand (IEEE 754 binary64).
SignificandBits == 53

DZero == [m |-> <<>>, e |-> 0]

\* m * 2^e with the low zero bits of m moved into the exponent.
DCanon(m, e) ==
    IF m = <<>> THEN DZero
    ELSE LET tz == (CHOOSE i \in 1..Len(m) :
                        m[i] = 1 /\ \A j \in 1..(i - 1) : m[j] = 0) - 1
         IN  [m |-> BigShr(m, tz), e |-> e + tz]

\* The number nearest to m * 2^e (plus a positive amount below 2^e when
\* sticky), ties to even.
DRound(m, e, sticky) ==
    IF Len(m) <= SignificandBits THEN DCanon(m, e)
    ELSE LET drop  == Len(m) - SignificandBits
             kept  == BigShr(m, drop)
             guard == m[drop]
             rest  == sticky \/ \E i \in 1..(drop - 1) : m[i] = 1
             up    == guard = 1 /\ (rest \/ kept[1] = 1)
         IN  DCanon(IF up THEN BigAdd(kept, <<1>>) ELSE kept, e + drop)

\* Number(a) for a bigint a.
NumberOfBig(a) == DRound(a, 0, FALSE)

\* x + y
DAdd(x, y) ==
    IF x.m = <<>> THEN y
    ELSE IF y.m = <<>> THEN x
    ELSE LET lo == Min2(x.e, y.e)
         IN  DRound(BigAdd(BigShl(x.m, x.e - lo), BigShl(y.m, y.e - lo)),
                    lo, FALSE)

\* x / y for y # 0
DRoundQuotient(qr, e) == DRound(qr[1], e, qr[2] # <<>>)

DDiv(x, y) ==
    IF x.m = <<>> THEN DZero
    ELSE LET k == Max2(0, SignificandBits + 2 + Len(y.m) - Len(x.m))
         IN  DRoundQuotient(BigDivMod(BigShl(x.m, k), y.m), x.e - y.e - k)

\* x <= 0: no negative number arises.
DNotPositive(x) == x.m = <<>>

\* x < y
DLess(x, y) ==
    IF y.m = <<>> THEN FALSE
    ELSE IF x.m = <<>> THEN TRUE
    ELSE LET lo == Min2(x.e, y.e)
         IN  BigLess(BigShl(x.m, x.e - lo), BigShl(y.m, y.e - lo))

\* ------------------------------------------------------------------ string

UpperLetters ==
    <<"A", "B", "C", "D", "E", "F", "G", "H", "I", "J", "K", "L", "M",
      "N", "O", "P", "Q", "R", "S", "T", "U", "V", "W", "X", "Y", "Z">>

LowerLetters ==
    <<"a", "b", "c", "d", "e", "f", "g", "h", "i", "j", "k", "l", "m",
      "n", "o", "p", "q", "r", "s", "t", "u", "v", "w", "x", "y", "z">>

HexDigits ==
    <<"0", "1", "2", "3", "4", "5", "6", "7",
      "8", "9", "a", "b", "c", "d", "e", "f">>

IndexIn(seq, c) == CHOOSE i \in 1..Len(seq) : seq[i] = c

IsIn(seq, c) == \E i \in 1..Len(seq) : seq[i] = c

LowerOfUpper ==
    [c \in {UpperLetters[i] : i \in 1..Len(UpperLetters)} |->
       LowerLetters[IndexIn(UpperLetters, c)]]

LowerChar(c) == IF c \in DOMAIN LowerOfUpper THEN LowerOfUpper[c] ELSE c

\* s.toLowerCase()
toLowerCase(s) == [i \in 1..Len(s) |-> LowerChar(s[i])]

\* s.slice(n) for n >= 0
slice(s, n) == IF n >= Len(s) THEN <<>> ELSE SubSeq(s, n + 1, Len(s))

\* Whether sep occurs in s at position q (1-based).
MatchAt(s, sep, q) ==
    /\ q + Len(sep) - 1 <= Len(s)
    /\ \A i \in 1..Len(sep) : s[q + i - 1] = sep[i]

\* s.split(sep) for a non-empty separator: p is where the current piece
\* starts and q the position examined, as in SplitMatch's loop.
RECURSIVE SplitFrom(_, _, _, _)
SplitFrom(s, sep, p, q) ==
    IF q > Len(s) THEN <<SubSeq(s, p, Len(s))>>
    ELSE IF MatchAt(s, sep, q)
         THEN <<SubSeq(s, p, q - 1)>>
              \o SplitFrom(s, sep, q + Len(sep), q + Len(sep))
         ELSE SplitFrom(s, sep, p, q + 1)

split(s, sep) == SplitFrom(s, sep, 1, 1)

IsHexChar(c) == IsIn(HexDigits, LowerChar(c))

IsDecChar(c) == IsIn(SubSeq(HexDigits, 1, 10), c)

HexValue(c) == IndexIn(HexDigits, LowerChar(c)) - 1

\* The bigint of the hexadecimal digits ds, the highest first: bit i is a
\* bit of the digit ((i - 1) \div 4) places from the right.
BigOfHexDigits(ds) ==
    BigNorm([i \in 1..(4 * Len(ds)) |->
               LET v == HexValue(ds[Len(ds) - ((i - 1) \div 4)])
               IN  (v \div (2 ^ ((i - 1) % 4))) % 2])

\* The bigint of the decimal digits ds, the highest first.
RECURSIVE BigOfDecDigits(_)
BigOfDecDigits(ds) ==
    IF ds = <<>> THEN <<>>
    ELSE LET front == BigOfDecDigits(SubSeq(ds, 1, Len(ds) - 1))
             last  == BigOfNat(HexValue(ds[Len(ds)]))
         IN  IF front = <<>> THEN last ELSE BigAdd(BigMul10(front), last)

IsHexLiteral(s) ==
    /\ Len(s) >= 3
    /\ s[1] = "0"
    /\ LowerChar(s[2]) = "x"
    /\ \A i \in 3..Len(s) : IsHexChar(s[i])

IsDecLiteral(s) == \A i \in 1..Len(s) : IsDecChar(s[i])

\* Whether BigInt(s) throws a SyntaxError: s is neither a 0x literal nor a
\* decimal literal (the empty string is the decimal literal of 0n).
BigIntThrows(s) == ~IsHexLiteral(s) /\ ~IsDecLiteral(s)

\* BigInt(s) for a string on which it does not throw.
BigInt(s) ==
    IF IsHexLiteral(s) THEN BigOfHexDigits(slice(s, 2)) ELSE BigOfDecDigits(s)

\* a.toString(16): one digit for every four bits, "0" for 0n.
HexOfBig(a) ==
    LET k == Max2(1, (Len(a) + 3) \div 4)
    IN  [j \in 1..k |->
           LET lo == 4 * (k - j)
           IN  HexDigits[BigBit(a, lo + 1) + 2 * BigBit(a, lo + 2)
                         + 4 * BigBit(a, lo + 3) + 8 * BigBit(a, lo + 4) + 1]]

\* ------------------------------------------------------------------ helpers

TRANSFER_TOPIC ==
    <<"0", "x", "d", "d", "f", "2", "5", "2", "a", "d", "1", "b", "e", "2", "c", "8",
      "9", "b", "6", "9", "c", "2", "b", "0", "6", "8", "f", "c", "3", "7", "8", "d",
      "a", "a", "9", "5", "2", "b", "a", "7", "f", "1", "6", "3", "c", "4", "a", "1",
      "1", "6", "2", "8", "f", "5", "5", "a", "4", "d", "f", "5", "2", "3", "b", "3",
      "e", "f">>

\* Monad ~1s block time
BLOCKS_24H == 24 * 60 * 60

BLOCKS_7D == 7 * BLOCKS_24H

\* The default of weiToMon's decimals parameter.
Decimals == 18

hexToBigIntThrows(hex) ==
    ~(hex = <<>> \/ hex = <<"0", "x">>) /\ BigIntThrows(hex)

hexToBigIntOf(hex) ==
    IF hex = <<>> \/ hex = <<"0", "x">> THEN <<>> ELSE BigInt(hex)

\* Number(whole) + Number(fraction) / Number(base)
WholePlusFraction(whole, fraction, base) ==
    DAdd(NumberOfBig(whole), DDiv(NumberOfBig(fraction), NumberOfBig(base)))

WholeAndFraction(qr, base) == WholePlusFraction(qr[1], qr[2], base)

DivideByBase(value, base) == WholeAndFraction(BigDivMod(value, base), base)

weiToMonOf(value) ==
    IF value = <<>> THEN DZero ELSE DivideByBase(value, BigPow10(Decimals))

\* ------------------------------------------------------------------ inputs

\* The characters of "Wallets" and of the key separator "|||".
Wallets == <<"W", "a", "l", "l", "e", "t", "s">>

Separator == <<"|", "|", "|">>

\* The hexadecimal digits of an address, and the index from which
\* topicFrom.slice(26) keeps the characters of a topic ("0x", 24 digits of
\* padding, 40 of address).
AddressDigits == 40

TopicSliceStart == 26

Repeat(c, n) == [i \in 1..n |-> c]

\* An address as a configuration file or a topic may spell it.
Address(c) == <<"0", "x">> \o Repeat(c, AddressDigits)

Topic(pad, c) ==
    <<"0", "x">> \o Repeat(pad, TopicSliceStart - 2) \o Repeat(c, AddressDigits)

\* Protocol names: two plain ones, the empty string, and one that holds the
\* key separator.
NameA == <<"A">>

NameB == <<"B">>

NameEmpty == <<>>

NameSep == <<"A", "|", "|", "|", "B">>

Cfg(cs) == [hasContracts |-> TRUE, contracts |-> cs]

CfgNoContracts == [hasContracts |-> FALSE, contracts |-> <<>>]

Entry(n, cfg) == [name |-> n, cfg |-> cfg]

\* The configurations loadProtocols may return, each the Object.entries of
\* the parsed file in order.
Registries ==
    { <<>>,
      <<Entry(NameA, Cfg(<<Address("a")>>))>>,
      <<Entry(NameA, Cfg(<<Address("A"), Address("b")>>))>>,
      <<Entry(NameA, Cfg(<<Address("a")>>)), Entry(NameB, Cfg(<<Address("b")>>))>>,
      <<Entry(NameA, Cfg(<<Address("a")>>)), Entry(NameB, Cfg(<<Address("A")>>))>>,
      <<Entry(NameB, Cfg(<<Address("a"), Address("b")>>)),
        Entry(NameA, Cfg(<<Address("A")>>))>>,
      <<Entry(NameA, Cfg(<<Address("a")>>)), Entry(NameB, CfgNoContracts)>>,
      <<Entry(NameEmpty, Cfg(<<Address("a")>>)), Entry(NameA, Cfg(<<Address("b")>>))>>,
      <<Entry(NameA, Cfg(<<Address("a")>>)), Entry(NameEmpty, Cfg(<<Address("A")>>))>>,
      <<Entry(NameSep, Cfg(<<Address("a")>>))>>,
      <<Entry(NameA, Cfg(<<Address("a")>>)), Entry(NameSep, Cfg(<<Address("b")>>))>> }

\* log.data: zero, 0.1 MON, 1 MON, and a string BigInt rejects.
DataZero == <<"0", "x", "0">>

DataTenth ==
    <<"0", "x", "1", "6", "3", "4", "5", "7", "8", "5", "d", "8", "a",
      "0", "0", "0", "0">>

DataOne ==
    <<"0", "x", "d", "e", "0", "b", "6", "b", "3", "a", "7", "6", "4",
      "0", "0", "0", "0">>

DataBad == <<"0", "x", "z", "z">>

Log(topics, data) == [topics |-> topics, data |-> data]

\* Transfer logs between the addresses a, b and c (c is in no registry).
TransferLogs ==
    { Log(<<TRANSFER_TOPIC, Topic("0", f), Topic("0", t)>>, d) :
        f \in {"a", "b", "c"}, t \in {"a", "b", "c"},
        d \in {DataZero, DataTenth, DataOne} }

\* Logs the loop skips, spells differently, or fails on.
OddLogs ==
    { Log(<<toLowerCase(Topic("0", "a")), Topic("0", "c"), Topic("0", "a")>>,
          DataOne),
      Log(<<TRANSFER_TOPIC, Topic("0", "c")>>, DataOne),
      Log(<<TRANSFER_TOPIC, <<>>, Topic("0", "a")>>, DataOne),
      Log(<<[i \in 1..Len(TRANSFER_TOPIC) |->
               IF IsIn(LowerLetters, TRANSFER_TOPIC[i])
               THEN UpperLetters[IndexIn(LowerLetters, TRANSFER_TOPIC[i])]
               ELSE TRANSFER_TOPIC[i]],
            Topic("f", "C"), Topic("1", "A")>>, DataOne),
      Log(<<>>, DataOne),
      Log(<<TRANSFER_TOPIC, Topic("0", "c"), Topic("0", "a")>>, DataBad) }

Logs == TransferLogs \cup OddLogs

\* hexToBigInt and weiToMon, with what they give for the data of the model's
\* logs computed once.
KnownData == <<DataZero, DataTenth, DataOne>>

KnownWei == <<>> \o [i \in DOMAIN KnownData |-> hexToBigIntOf(KnownData[i])]

KnownMon == <<>> \o [i \in DOMAIN KnownData |-> weiToMonOf(hexToBigIntOf(KnownData[i]))]

\* values[i] for the i with keys[i] = key, and otherwise when there is none.
Known(keys, values, key, otherwise) ==
    IF \E i \in DOMAIN keys : keys[i] = key
    THEN values[CHOOSE i \in DOMAIN keys : keys[i] = key]
    ELSE otherwise

hexToBigInt(hex) == Known(KnownData, KnownWei, hex, hexToBigIntOf(hex))

weiToMon(value) == Known(KnownWei, KnownMon, value, weiToMonOf(value))

\* blockOffset without the comparison that keeps the start at 0 or above.
blockOffsetUnclamped(latestBlock, offset) ==
    <<"0", "x">> \o HexOfBig(BigSub(latestBlock, BigOfNat(offset)))

\* last N blocks approximated by blockNumber - N
blockOffset(latestBlock, offset) ==
    LET off  == BigOfNat(offset)
        from == IF BigLess(off, latestBlock)
                THEN BigSub(latestBlock, off) ELSE <<>>
    IN  <<"0", "x">> \o HexOfBig(from)

\* ------------------------------------------------------------------ Map

\* A Map is the sequence of its [key, value] entries in insertion order.
MapHas(map, k) == \E i \in 1..Len(map) : map[i].key = k

\* map.get(k) of a key the map has.
MapGet(map, k) == map[CHOOSE i \in 1..Len(map) : map[i].key = k].value

\* map.set(k, v): a key the map has keeps its place.
MapSet(map, k, v) ==
    IF MapHas(map, k)
    THEN [i \in 1..Len(map) |->
            IF map[i].key = k THEN [key |-> k, value |-> v] ELSE map[i]]
    ELSE Append(map, [key |-> k, value |-> v])

\* ------------------------------------------------------------------ flows

\* IndexContracts with the first protocol to declare an address keeping it.
RECURSIVE IndexContractsFirstWins(_, _, _, _)
IndexContractsFirstWins(map, name, contracts, i) ==
    IF i > Len(contracts) THEN map
    ELSE IndexContractsFirstWins(
             IF MapHas(map, toLowerCase(contracts[i])) THEN map
             ELSE MapSet(map, toLowerCase(contracts[i]), name),
             name, contracts, i + 1)

\* for (const addr of cfg.contracts || []) contractToProtocol.set(...)
RECURSIVE IndexContracts(_, _, _, _)
IndexContracts(map, name, contracts, i) ==
    IF i > Len(contracts) THEN map
    ELSE IndexContracts(MapSet(map, toLowerCase(contracts[i]), name),
                        name, contracts, i + 1)

\* for (const [name, cfg] of Object.entries(protocols)) ...
RECURSIVE IndexProtocols(_, _, _)
IndexProtocols(map, protocols, i) ==
    IF i > Len(protocols) THEN map
    ELSE IndexProtocols(
             IndexContracts(map, protocols[i].name,
                            IF protocols[i].cfg.hasContracts
                            THEN protocols[i].cfg.contracts ELSE <<>>, 1),
             protocols, i + 1)

\* The reverse index contractToProtocol of a configuration.
ContractToProtocol(protocols) == IndexProtocols(<<>>, protocols, 1)

\* Whether contractToProtocol.get(addr) is truthy: undefined and the empty
\* string are not.
Truthy(index, addr) == MapHas(index, addr) /\ MapGet(index, addr) # <<>>

\* addFlow without its first line, if (vol <= 0) return.
addFlowUnguarded(volumeMap, source, target, vol) ==
    LET key  == source \o Separator \o target
        prev == IF MapHas(volumeMap, key) THEN MapGet(volumeMap, key) ELSE DZero
    IN  MapSet(volumeMap, key, DAdd(prev, vol))

\* addFlow setting the volume of the key instead of adding to it.
addFlowOverwrite(volumeMap, source, target, vol) ==
    IF DNotPositive(vol) THEN volumeMap
    ELSE MapSet(volumeMap, source \o Separator \o target, vol)

\* addFlow(source, target, vol) on volumeMap.
addFlow(volumeMap, source, target, vol) ==
    IF DNotPositive(vol) THEN volumeMap
    ELSE LET key  == source \o Separator \o target
             prev == IF MapHas(volumeMap, key) /\ MapGet(volumeMap, key) # DZero
                     THEN MapGet(volumeMap, key) ELSE DZero
         IN  MapSet(volumeMap, key, DAdd(prev, vol))

Call(source, target, vol) == [source |-> source, target |-> target, vol |-> vol]

\* Lines 219-236: the two lookups and the three ifs, for from, to and
\* valueMon.
Classify(index, from, to, valueMon) ==
    LET fromProt == Truthy(index, from)
        toProt   == Truthy(index, to)
    IN  [kind |-> "classify",
         calls |->
           (IF ~fromProt /\ toProt
            THEN <<Call(Wallets, MapGet(index, to), valueMon)>> ELSE <<>>)
           \o
           (IF fromProt /\ ~toProt
            THEN <<Call(MapGet(index, from), Wallets, valueMon)>> ELSE <<>>)
           \o
           (IF fromProt /\ toProt /\ MapGet(index, from) # MapGet(index, to)
            THEN <<Call(MapGet(index, from), MapGet(index, to), valueMon)>>
            ELSE <<>>)]

\* What one turn of the loop over the logs does with a log: "throw" (an
\* exception leaves the loop), "skip" (continue), or "classify" with the
\* addFlow calls it makes, in order.
Turn(index, log) ==
    IF Len(log.topics) = 0 THEN [kind |-> "throw", calls |-> <<>>]
    ELSE IF toLowerCase(log.topics[1]) # TRANSFER_TOPIC
    THEN [kind |-> "skip", calls |-> <<>>]
    ELSE IF Len(log.topics) < 3 \/ log.topics[2] = <<>> \/ log.topics[3] = <<>>
    THEN [kind |-> "skip", calls |-> <<>>]
    ELSE IF hexToBigIntThrows(log.data) THEN [kind |-> "throw", calls |-> <<>>]
    ELSE Classify(index,
                  <<"0", "x">> \o toLowerCase(slice(log.topics[2], TopicSliceStart)),
                  <<"0", "x">> \o toLowerCase(slice(log.topics[3], TopicSliceStart)),
                  weiToMon(hexToBigInt(log.data)))

RECURSIVE ApplyCalls(_, _, _)
ApplyCalls(volumeMap, calls, i) ==
    IF i > Len(calls) THEN volumeMap
    ELSE ApplyCalls(addFlow(volumeMap, calls[i].source, calls[i].target,
                            calls[i].vol),
                    calls, i + 1)

\* Array.from(volumeMap.entries()).map(...): each key split on "|||", its
\* first two pieces the source and the target.
FlowsOf(volumeMap) ==
    [i \in 1..Len(volumeMap) |->
       LET parts == split(volumeMap[i].key, Separator)
       IN  [source |-> parts[1], target |-> parts[2],
            volume |-> volumeMap[i].value]]

\* ReduceVolume stopping one flow short.
RECURSIVE ReduceVolumeShort(_, _, _)
ReduceVolumeShort(flows, i, sum) ==
    IF i >= Len(flows) THEN sum
    ELSE ReduceVolumeShort(flows, i + 1, DAdd(sum, flows[i].volume))

\* flows.reduce((sum, f) => sum + f.volume, 0)
RECURSIVE ReduceVolume(_, _, _)
ReduceVolume(flows, i, sum) ==
    IF i > Len(flows) THEN sum
    ELSE ReduceVolume(flows, i + 1, DAdd(sum, flows[i].volume))

\* The FlowFile buildFlowsForPeriod returns (lastUpdated, a timestamp, is
\* left out; period is the caller's).
FlowFileOf(volumeMap, period) ==
    LET flows == FlowsOf(volumeMap)
    IN  [period |-> period, totalVolume |-> ReduceVolume(flows, 1, DZero),
         flows |-> flows]

\* The loop over all the logs from volumeMap on: the map at the end, or
\* "throw" when a turn throws.
RECURSIVE LoopLogs(_, _, _, _)
RECURSIVE LoopTurn(_, _, _, _, _)
LoopLogs(volumeMap, index, logs, i) ==
    IF i > Len(logs) THEN [kind |-> "return", volumeMap |-> volumeMap]
    ELSE LoopTurn(volumeMap, index, logs, i, Turn(index, logs[i]))

\* The loop from the turn of log i on.
LoopTurn(volumeMap, index, logs, i, turn) ==
    IF turn.kind = "throw" THEN [kind |-> "throw", volumeMap |-> volumeMap]
    ELSE LoopLogs(ApplyCalls(volumeMap, turn.calls, 1), index, logs, i + 1)

\* Lines 239-256 after a loop that did not throw.
ReturnOf(done) ==
    IF done.kind = "throw" THEN [kind |-> "throw"]
    ELSE [kind |-> "return", file |-> FlowFileOf(done.volumeMap, "raw")]

\* buildFlowsForPeriod once the logs are there.
BuildFlows(protocols, logs) ==
    ReturnOf(LoopLogs(<<>>, ContractToProtocol(protocols), logs, 1))

\* ------------------------------------------------------------------ state

VARIABLES
    run,    \* the script's run: configuration, main, the two periods, files
    agg,    \* one buildFlowsForPeriod, log by log
    perm,   \* the aggregation of a list of logs and of a permutation of it
    blk     \* one blockOffset

vars == <<run, agg, perm, blk>>

Idle == [pc |-> "idle"]

\* ------------------------------------------------------------------ one
\* buildFlowsForPeriod, a turn of its loop at a time

\* The most logs eth_getLogs answers with.
AggLogs == 2

AggInit ==
    /\ agg \in { [pc |-> "index", protocols |-> r, contractToProtocol |-> <<>>,
                  volumeMap |-> <<>>, n |-> 0, log |-> Log(<<>>, <<>>),
                  turn |-> [kind |-> "none", calls |-> <<>>],
                  before |-> <<>>, file |-> [kind |-> "none"]] :
                 r \in Registries }
    /\ run = Idle
    /\ perm = Idle
    /\ blk = Idle

\* Lines 187-195: the reverse index and the empty volumeMap.
AggIndex ==
    /\ agg.pc = "index"
    /\ agg' = [agg EXCEPT !.pc = "loop",
                          !.contractToProtocol = ContractToProtocol(agg.protocols)]
    /\ UNCHANGED <<run, perm, blk>>

\* agg after the turn of the loop for log.
AggAfter(log, turn) ==
    [agg EXCEPT !.pc = IF turn.kind = "throw" THEN "thrown" ELSE "loop",
                !.n = agg.n + 1,
                !.log = log,
                !.turn = turn,
                !.before = agg.volumeMap,
                !.volumeMap = ApplyCalls(agg.volumeMap, turn.calls, 1)]

\* Lines 204-237: the turn of the loop for the next log.
AggTurn ==
    /\ agg.pc = "loop"
    /\ agg.n < AggLogs
    /\ \E log \in Logs : agg' = AggAfter(log, Turn(agg.contractToProtocol, log))
    /\ UNCHANGED <<run, perm, blk>>

\* Lines 239-256: after the last log, the flows and their total.
AggReturn ==
    /\ agg.pc = "loop"
    /\ agg' = [agg EXCEPT !.pc = "returned",
                          !.file = FlowFileOf(agg.volumeMap, "raw")]
    /\ UNCHANGED <<run, perm, blk>>

AggNext == AggIndex \/ AggTurn \/ AggReturn

SpecAgg == AggInit /\ [][AggNext]_vars

\* ------------------------------------------------------------------ claims
\* about one buildFlowsForPeriod

\* What a configuration says of an address, read off the configuration
\* itself: the entries declaring it in some spelling, and the last of them.
DeclaringEntries(protocols, addr) ==
    {i \in 1..Len(protocols) :
       /\ protocols[i].cfg.hasContracts
       /\ \E j \in 1..Len(protocols[i].cfg.contracts) :
            toLowerCase(protocols[i].cfg.contracts[j]) = addr}

IsMapped(protocols, addr) == DeclaringEntries(protocols, addr) # {}

ProtocolOf(protocols, addr) ==
    LET d == DeclaringEntries(protocols, addr)
    IN  protocols[CHOOSE i \in d : \A j \in d : j <= i].name

Sender(log) ==
    <<"0", "x">> \o toLowerCase(slice(log.topics[2], TopicSliceStart))

Receiver(log) ==
    <<"0", "x">> \o toLowerCase(slice(log.topics[3], TopicSliceStart))

Amount(log) == weiToMon(hexToBigInt(log.data))

\* The addFlow calls the four-case rule asks of a Transfer log.
RuleCalls(protocols, log) ==
    LET sm == IsMapped(protocols, Sender(log))
        rm == IsMapped(protocols, Receiver(log))
    IN  IF ~sm /\ rm
        THEN <<Call(Wallets, ProtocolOf(protocols, Receiver(log)), Amount(log))>>
        ELSE IF sm /\ ~rm
        THEN <<Call(ProtocolOf(protocols, Sender(log)), Wallets, Amount(log))>>
        ELSE IF sm /\ rm /\ ProtocolOf(protocols, Sender(log))
                            # ProtocolOf(protocols, Receiver(log))
        THEN <<Call(ProtocolOf(protocols, Sender(log)),
                    ProtocolOf(protocols, Receiver(log)), Amount(log))>>
        ELSE <<>>

\* C1: every Transfer log the loop classifies adds to at most one key, the
\* one the four-case rule names: ("Wallets", P) for an unmapped sender and a
\* receiver mapped to P, (P, "Wallets") for a sender mapped to P and an
\* unmapped receiver, (P1, P2) for both mapped to different protocols, and
\* no key otherwise.
C1_FourCaseRule ==
    agg.pc # "idle" /\ agg.turn.kind = "classify"
        => agg.turn.calls = RuleCalls(agg.protocols, agg.log)

\* C2: the flows returned hold at most one entry for an ordered
\* (source, target) pair.
C2_OneEntryPerPair ==
    agg.pc = "returned"
        => \A i, j \in 1..Len(agg.file.flows) :
             (/\ agg.file.flows[i].source = agg.file.flows[j].source
              /\ agg.file.flows[i].target = agg.file.flows[j].target) => i = j

\* The names of the protocols of a configuration.
Names(protocols) == {protocols[i].name : i \in 1..Len(protocols)}

\* C7: each endpoint of each edge returned is "Wallets" or the name of a
\* protocol of the configuration.
C7_EndpointsAreNames ==
    agg.pc = "returned"
        => \A i \in 1..Len(agg.file.flows) :
             /\ agg.file.flows[i].source \in {Wallets} \cup Names(agg.protocols)
             /\ agg.file.flows[i].target \in {Wallets} \cup Names(agg.protocols)

\* C5: every entry of the flows returned has a volume above zero, and a log
\* whose amount is zero leaves volumeMap as it was, so a pair that got only
\* such logs has no entry.
C5_PositiveVolumes ==
    /\ agg.pc = "returned"
         => \A i \in 1..Len(agg.file.flows) :
              DLess(DZero, agg.file.flows[i].volume)
    /\ agg.pc # "idle" /\ agg.turn.kind = "classify"
       /\ Amount(agg.log) = DZero
         => agg.volumeMap = agg.before

\* C5 witness: a log with amount zero was classified into a pair, and the
\* flows returned hold entries of other pairs but none of that pair.
C5_Witness ==
    /\ agg.pc = "returned"
    /\ agg.turn.kind = "classify"
    /\ agg.turn.calls # <<>>
    /\ Amount(agg.log) = DZero
    /\ agg.file.flows # <<>>
    /\ \A i \in 1..Len(agg.file.flows) :
         ~(/\ agg.file.flows[i].source = agg.turn.calls[1].source
           /\ agg.file.flows[i].target = agg.turn.calls[1].target)

\* The sum of the volumes of the first n flows, taken from the first on.
RECURSIVE SumVolumes(_, _)
SumVolumes(flows, n) ==
    IF n = 0 THEN DZero ELSE DAdd(SumVolumes(flows, n - 1), flows[n].volume)

\* C8: totalVolume is the sum of the volumes of the flows returned, and is 0
\* with no flows when no log made an edge.
C8_TotalIsSum ==
    agg.pc = "returned"
        => /\ agg.file.totalVolume
                = SumVolumes(agg.file.flows, Len(agg.file.flows))
           /\ agg.volumeMap = <<>>
                => agg.file.flows = <<>> /\ agg.file.totalVolume = DZero

\* C8 witness: a file returned with two flows of different volumes.
C8_Witness ==
    /\ agg.pc = "returned"
    /\ Len(agg.file.flows) = 2
    /\ agg.file.flows[1].volume # agg.file.flows[2].volume
    /\ agg.file.totalVolume # agg.file.flows[1].volume
    /\ agg.file.totalVolume # agg.file.flows[2].volume

\* C10: the reverse index holds each declared address once, in lower case,
\* under the name of the last protocol that declares it, and the calls made
\* for a log name no protocol but those of its sender and of its receiver.
C10_LastProtocolWins ==
    agg.pc \in {"loop", "thrown", "returned"}
        => /\ \A i, j \in 1..Len(agg.contractToProtocol) :
                agg.contractToProtocol[i].key = agg.contractToProtocol[j].key
                    => i = j
           /\ \A i \in 1..Len(agg.contractToProtocol) :
                LET addr == agg.contractToProtocol[i].key
                IN  /\ addr = toLowerCase(addr)
                    /\ IsMapped(agg.protocols, addr)
                    /\ agg.contractToProtocol[i].value
                         = ProtocolOf(agg.protocols, addr)
           /\ \A e \in 1..Len(agg.protocols) :
                agg.protocols[e].cfg.hasContracts
                    => \A c \in 1..Len(agg.protocols[e].cfg.contracts) :
                         MapHas(agg.contractToProtocol,
                                toLowerCase(agg.protocols[e].cfg.contracts[c]))
           /\ \A k \in 1..Len(agg.turn.calls) :
                LET call == agg.turn.calls[k]
                IN  /\ call.source # Wallets
                         => call.source = ProtocolOf(agg.protocols, Sender(agg.log))
                    /\ call.target # Wallets
                         => call.target = ProtocolOf(agg.protocols, Receiver(agg.log))

\* C10 witness: two protocols declare the sender of a log, and the call made
\* for the log names the later one.
C10_Witness ==
    /\ agg.pc = "loop"
    /\ agg.turn.calls # <<>>
    /\ Cardinality(DeclaringEntries(agg.protocols, Sender(agg.log))) = 2
    /\ agg.turn.calls[1].source = ProtocolOf(agg.protocols, Sender(agg.log))

\* ------------------------------------------------------------------ one
\* blockOffset

\* The heads and the look-backs tried besides those around the two periods.
MaxBlock == 9

MaxOffset == 6

BlockHeights ==
    (0..MaxBlock)
    \cup {BLOCKS_24H - 1, BLOCKS_24H, BLOCKS_24H + 1,
          BLOCKS_7D - 1, BLOCKS_7D, BLOCKS_7D + 1}

Offsets == (0..MaxOffset) \cup {BLOCKS_24H, BLOCKS_7D}

BlkInit ==
    /\ blk \in { [pc |-> "call", latest |-> n, offset |-> k, from |-> <<>>] :
                 n \in BlockHeights, k \in Offsets }
    /\ run = Idle
    /\ agg = Idle
    /\ perm = Idle

\* Line 160: fromBlock = blockOffset(latest, blocksBack).
BlkCall ==
    /\ blk.pc = "call"
    /\ blk' = [blk EXCEPT !.pc = "done",
                          !.from = blockOffset(BigOfNat(blk.latest), blk.offset)]
    /\ UNCHANGED <<run, agg, perm>>

BlkNext == BlkCall

SpecBlock == BlkInit /\ [][BlkNext]_vars

\* C9: blockOffset spells, as "0x" and hexadecimal digits, the larger of
\* latestBlock - blocksBack and 0, which is never above latestBlock.
C9_RangeStart ==
    blk.pc = "done"
        => /\ IsHexLiteral(blk.from)
           /\ NatOfBig(BigInt(blk.from)) = Max2(blk.latest - blk.offset, 0)
           /\ NatOfBig(BigInt(blk.from)) >= 0
           /\ NatOfBig(BigInt(blk.from)) <= blk.latest

\* C9 witness: a look-back beyond the first block gives "0x0".
C9_Witness ==
    /\ blk.pc = "done"
    /\ blk.latest > 0
    /\ blk.latest < blk.offset
    /\ blk.from = <<"0", "x", "0">>

\* ------------------------------------------------------------------ a list
\* of logs and a permutation of it

\* The longest list of logs permuted.
PermLen == 3

PermRegistries ==
    { <<Entry(NameA, Cfg(<<Address("a")>>)), Entry(NameB, Cfg(<<Address("b")>>))>>,
      <<Entry(NameEmpty, Cfg(<<Address("a")>>)), Entry(NameA, Cfg(<<Address("b")>>))>>,
      <<Entry(NameA, Cfg(<<Address("a")>>)), Entry(NameSep, Cfg(<<Address("b")>>))>> }

PermLogs ==
    { Log(<<TRANSFER_TOPIC, Topic("0", "c"), Topic("0", "a")>>, DataTenth),
      Log(<<TRANSFER_TOPIC, Topic("0", "c"), Topic("0", "a")>>, DataOne),
      Log(<<TRANSFER_TOPIC, Topic("0", "c"), Topic("0", "a")>>, DataZero),
      Log(<<TRANSFER_TOPIC, Topic("0", "a"), Topic("0", "b")>>, DataOne),
      Log(<<>>, DataOne) }

Orders(n) ==
    {f \in [1..n -> 1..n] : \A i, j \in 1..n : f[i] = f[j] => i = j}

PermInit ==
    /\ perm \in { [pc |-> "build", protocols |-> r, logs |-> l, order |-> f,
                   first |-> [kind |-> "none"], second |-> [kind |-> "none"]] :
                  r \in PermRegistries,
                  l \in UNION {[1..n -> PermLogs] : n \in 0..PermLen},
                  f \in UNION {Orders(n) : n \in 0..PermLen} }
    /\ DOMAIN perm.order = DOMAIN perm.logs
    /\ run = Idle
    /\ agg = Idle
    /\ blk = Idle

\* buildFlowsForPeriod on the logs, and on the logs in the other order.
PermBuild ==
    /\ perm.pc = "build"
    /\ perm' = [perm EXCEPT
                  !.pc = "built",
                  !.first = BuildFlows(perm.protocols, perm.logs),
                  !.second = BuildFlows(perm.protocols,
                                        [i \in DOMAIN perm.logs |->
                                           perm.logs[perm.order[i]]])]
    /\ UNCHANGED <<run, agg, blk>>

PermNext == PermBuild

SpecPerm == PermInit /\ [][PermNext]_vars

\* The edges of a list of flows, and those together with their volumes.
EdgesOf(flows) ==
    {<<flows[i].source, flows[i].target>> : i \in 1..Len(flows)}

VolumesOf(flows) ==
    {<<flows[i].source, flows[i].target, flows[i].volume>> : i \in 1..Len(flows)}

\* C6, as claimed: a permutation of the logs gives the same edges with the
\* same volume on each.
C6_SameEdgesSameVolumes ==
    perm.pc = "built"
        => /\ perm.first.kind = perm.second.kind
           /\ perm.first.kind = "return"
                => VolumesOf(perm.first.file.flows)
                     = VolumesOf(perm.second.file.flows)

\* The logs of a list that add a positive amount to an edge of the flows.
Adders(protocols, logs, edge) ==
    {i \in 1..Len(logs) :
       LET turn == Turn(ContractToProtocol(protocols), logs[i])
       IN  /\ turn.calls # <<>>
           /\ ~DNotPositive(turn.calls[1].vol)
           /\ LET parts == split(turn.calls[1].source \o Separator
                                 \o turn.calls[1].target, Separator)
              IN  <<parts[1], parts[2]>> = edge}

VolumesOn(flows, edge) ==
    {flows[i].volume : i \in {j \in 1..Len(flows) :
                                <<flows[j].source, flows[j].target>> = edge}}

\* C6, amended: a permutation of the logs gives the same edges, and the same
\* volume on each edge that at most two of the logs add to.
C6_SameEdges ==
    perm.pc = "built"
        => /\ perm.first.kind = perm.second.kind
           /\ perm.first.kind = "return"
                => /\ EdgesOf(perm.first.file.flows)
                        = EdgesOf(perm.second.file.flows)
                   /\ \A edge \in EdgesOf(perm.first.file.flows) :
                        Cardinality(Adders(perm.protocols, perm.logs, edge)) <= 2
                            => VolumesOn(perm.first.file.flows, edge)
                                 = VolumesOn(perm.second.file.flows, edge)

\* C6 witness: of three logs two add different amounts to one edge and the
\* third adds to another, and the two come in the other order.
C6_Witness ==
    /\ perm.pc = "built"
    /\ perm.first.kind = "return"
    /\ Len(perm.logs) = 3
    /\ Len(perm.first.file.flows) = 2
    /\ \E edge \in EdgesOf(perm.first.file.flows) :
         LET on == Adders(perm.protocols, perm.logs, edge)
         IN  /\ Cardinality(on) = 2
             /\ \E i, j \in on :
                  /\ i < j
                  /\ perm.logs[i].data # perm.logs[j].data
                  /\ \E k, l \in 1..3 :
                       k > l /\ perm.order[k] = i /\ perm.order[l] = j

\* ------------------------------------------------------------------ the run
\* of the script

\* An environment variable: unset, or set to a string.
Unset == [set |-> FALSE, value |-> <<>>]

SetTo(v) == [set |-> TRUE, value |-> v]

EnvRpcUrls ==
    {Unset, SetTo(<<>>), SetTo(<<"h", "t", "t", "p", ":", "/", "/", "r", "p", "c">>)}

EnvTokenAddresses == {Unset, SetTo(<<>>), SetTo(Address("D"))}

\* process.env.X || ""
OrEmpty(var) == IF var.set THEN var.value ELSE <<>>

\* What eth_blockNumber answers with: 86401, "0x" and a string BigInt rejects.
LatestHexes ==
    { <<"0", "x", "1", "5", "1", "8", "1">>, <<"0", "x">>, DataBad }

RunRegistries ==
    { <<>>,
      <<Entry(NameA, Cfg(<<Address("a")>>)), Entry(NameB, Cfg(<<Address("b")>>))>> }

RunLogs ==
    { Log(<<TRANSFER_TOPIC, Topic("0", "c"), Topic("0", "a")>>, DataOne),
      Log(<<TRANSFER_TOPIC, Topic("0", "a"), Topic("0", "b")>>, DataTenth),
      Log(<<>>, DataOne) }

\* The most logs eth_getLogs answers with in a run.
RunLen == 1

Periods == {"24h", "7d"}

BlocksBack(p) == IF p = "24h" THEN BLOCKS_24H ELSE BLOCKS_7D

NoFile == [kind |-> "none"]

RunInit ==
    /\ run \in { [pc |-> "config", rpcUrl |-> u, token |-> t,
                  MON_TOKEN_ADDRESS |-> <<>>, exitCode |-> "none",
                  protocols |-> <<>>, calls |-> 0,
                  period |-> [p \in Periods |->
                                [pc |-> "idle", filter |-> NoFile, file |-> NoFile,
                                 failure |-> "none"]],
                  out |-> [p \in Periods |-> NoFile]] :
                 u \in EnvRpcUrls, t \in EnvTokenAddresses }
    /\ agg = Idle
    /\ perm = Idle
    /\ blk = Idle

Exit(code) == [run EXCEPT !.pc = "exited", !.exitCode = code]

\* Lines 22-32 with only the first of the two checks.
CheckConfigUrlOnly ==
    /\ run.pc = "config"
    /\ run' = IF OrEmpty(run.rpcUrl) = <<>> THEN Exit(1)
              ELSE [run EXCEPT !.pc = "main",
                               !.MON_TOKEN_ADDRESS = toLowerCase(OrEmpty(run.token))]
    /\ UNCHANGED <<agg, perm, blk>>

\* Lines 22-32: the two values of the environment and their checks.
CheckConfig ==
    /\ run.pc = "config"
    /\ run' = IF OrEmpty(run.rpcUrl) = <<>> THEN Exit(1)
              ELSE IF toLowerCase(OrEmpty(run.token)) = <<>> THEN Exit(1)
              ELSE [run EXCEPT !.pc = "main",
                               !.MON_TOKEN_ADDRESS = toLowerCase(OrEmpty(run.token))]
    /\ UNCHANGED <<agg, perm, blk>>

\* Lines 261-273 and 295-298: main up to its await. loadProtocols gives {}
\* for no file and throws on a file that is no JSON; mkdirSync may throw;
\* then each period's buildFlowsForPeriod runs to its first rpcCall.
MainStart ==
    /\ run.pc = "main"
    /\ \/ \E outcome \in {"JSON.parse throws", "mkdirSync throws"} :
            run' = Exit(1)
       \/ \E r \in RunRegistries :
            run' = [run EXCEPT
                      !.pc = "await",
                      !.protocols = r,
                      !.calls = run.calls + 2,
                      !.period = [p \in Periods |->
                                    [run.period[p] EXCEPT !.pc = "eth_blockNumber"]]]
    /\ UNCHANGED <<agg, perm, blk>>

\* What a rpcCall comes to (lines 97-115): fetch or res.json() rejects, the
\* answer holds an error, holds no result, or holds a result.
RpcFailures == {"fetch rejects", "json.error", "no result"}

Reject(p, failure) ==
    [run EXCEPT !.period[p].pc = "rejected", !.period[p].failure = failure]

\* Lines 157-174: eth_blockNumber settles for a period; with a result, the
\* range is computed and eth_getLogs is called.
BlockNumberSettles(p) ==
    /\ run.pc = "await"
    /\ run.period[p].pc = "eth_blockNumber"
    /\ \/ \E failure \in RpcFailures : run' = Reject(p, failure)
       \/ \E latestHex \in LatestHexes :
            run' = IF hexToBigIntThrows(latestHex) THEN Reject(p, "BigInt throws")
                   ELSE [run EXCEPT
                           !.calls = run.calls + 1,
                           !.period[p].pc = "eth_getLogs",
                           !.period[p].filter =
                               [address |-> run.MON_TOKEN_ADDRESS,
                                fromBlock |-> blockOffset(hexToBigInt(latestHex),
                                                          BlocksBack(p)),
                                toBlock |-> latestHex,
                                topics |-> <<TRANSFER_TOPIC>>]]
    /\ UNCHANGED <<agg, perm, blk>>

\* The run once buildFlowsForPeriod has thrown or returned for a period.
Settle(p, built) ==
    IF built.kind = "throw" THEN Reject(p, "loop throws")
    ELSE [run EXCEPT !.period[p].pc = "fulfilled",
                     !.period[p].file = built.file]

\* Lines 174-176 and 185-256: eth_getLogs settles for a period; with the
\* logs, the flows are built.
LogsSettle(p) ==
    /\ run.pc = "await"
    /\ run.period[p].pc = "eth_getLogs"
    /\ \/ \E failure \in RpcFailures : run' = Reject(p, failure)
       \/ \E logs \in UNION {[1..n -> RunLogs] : n \in 0..RunLen} :
            run' = Settle(p, BuildFlows(run.protocols, logs))
    /\ UNCHANGED <<agg, perm, blk>>

\* Lines 295-298: Promise.all rejects with the first period to reject, main
\* rejects, and its catch exits.
MainCatch ==
    /\ run.pc = "await"
    /\ \E p \in Periods : run.period[p].pc = "rejected"
    /\ run' = Exit(1)
    /\ UNCHANGED <<agg, perm, blk>>

Written(p) == [kind |-> "file", content |-> [run.period[p].file EXCEPT !.period = p]]

\* MainResume writing the file of the first period as soon as it has it.
MainResumeEarly ==
    /\ run.pc = "await"
    /\ run.period["24h"].pc = "fulfilled"
    /\ run.out["24h"] = NoFile
    /\ run' = [run EXCEPT !.out["24h"] = Written("24h")]
    /\ UNCHANGED <<agg, perm, blk>>

\* Lines 270-292: Promise.all fulfils once both periods have, and main
\* writes the two files, the first writeFileSync to throw ending the run.
MainResume ==
    /\ run.pc = "await"
    /\ \A p \in Periods : run.period[p].pc = "fulfilled"
    /\ \/ run' = Exit(1)
       \/ run' = [Exit(1) EXCEPT !.out["24h"] = Written("24h")]
       \/ run' = [run EXCEPT !.pc = "done", !.exitCode = 0,
                             !.out = [p \in Periods |-> Written(p)]]
    /\ UNCHANGED <<agg, perm, blk>>

Next ==
    \/ CheckConfig
    \/ MainStart
    \/ \E p \in Periods : BlockNumberSettles(p)
    \/ \E p \in Periods : LogsSettle(p)
    \/ MainCatch
    \/ MainResume

Spec == RunInit /\ [][Next]_vars

\* A configuration value that is unset or empty.
Missing(var) == ~var.set \/ var.value = <<>>

\* C4: in a run where the endpoint URL or the token address is unset or
\* empty, no rpcCall is ever issued and main is never entered: the run is
\* at the configuration checks or has exited, and it exits with code 1.
C4_NoCallWithoutConfig ==
    (Missing(run.rpcUrl) \/ Missing(run.token))
        => /\ run.calls = 0
           /\ run.pc \in {"config", "exited"}
           /\ run.pc = "config" => ENABLED CheckConfig
           /\ run.pc = "exited" => run.exitCode = 1

\* The run has exited on the second check: the URL is there, the token
\* address is not.
C4_Witness ==
    /\ ~Missing(run.rpcUrl)
    /\ Missing(run.token)
    /\ run.pc = "exited"
    /\ run.exitCode = 1
    /\ run.calls = 0

\* The script's run with what Node guarantees: the code at the top of the
\* module runs, and a rejected main runs its catch.
LiveSpec == Spec /\ WF_vars(CheckConfig) /\ WF_vars(MainCatch)

\* A period's buildFlowsForPeriod has failed on one of its remote calls.
FetchFailed(p) ==
    /\ run.period[p].pc = "rejected"
    /\ run.period[p].failure \in RpcFailures

SomeRejected == \E p \in Periods : run.period[p].pc = "rejected"

NoFileWritten == \A p \in Periods : run.out[p] = NoFile

ExitedWithOne == run.pc = "exited" /\ run.exitCode = 1

\* C3: once a period has failed, whatever the other period has done or
\* does, no file is written; a file is written only with both periods
\* fulfilled; and the run comes to exit with code 1.
C3_NoPartialOutput ==
    /\ [](/\ SomeRejected => NoFileWritten /\ run.pc \in {"await", "exited"}
          /\ ~NoFileWritten =>
                 \A p \in Periods : run.period[p].pc = "fulfilled")
    /\ SomeRejected ~> ExitedWithOne

\* The 7d period failed on a remote call after the 24h period had
\* succeeded, and the run has exited with code 1 and no file.
C3_Witness ==
    /\ run.pc = "exited"
    /\ run.exitCode = 1
    /\ run.period["24h"].pc = "fulfilled"
    /\ FetchFailed("7d")
    /\ NoFileWritten

====
